---- MODULE Spec2Model ----
(***************************************************************************)
(* Verification model of the METIS econometric core:                       *)
(*   - LinearModel (src/backend/src/linear_models.py): feature list,       *)
(*     transformations, fixed coefficients, date window and refits;        *)
(*   - the HTTP handlers of "src/backend/app copy 2.py" that mutate a      *)
(*     registered model (create, add-var, remove-var, filter, delete);     *)
(*   - calculate_decomposition / expand_weighted_variable_contributions    *)
(*     (src/backend/src/decomposition.py).                                 *)
(*                                                                         *)
(* A fit is not computed numerically.  A FittedResult is represented by     *)
(* the description of the regression that produced it: the design columns, *)
(* the version of the data of every column (raw or transformed, and the    *)
(* date window its statistics were taken on), the window of the target and *)
(* the coefficients overwritten by fixed values.  Two results with the     *)
(* same description have the same coefficients; on generic data two        *)
(* different descriptions have different ones.                             *)
(* The decomposition is computed numerically, in exact integer arithmetic  *)
(* on series scaled by Den.                                                *)
(***************************************************************************)
EXTENDS Integers, Sequences, FiniteSets, TLC

VARIABLES
    models,                  \* data_store['models']: names of the registered models
    active_model,            \* data_store['active_model'] ("" is None)
    kpi,                     \* LinearModel.kpi ("" is None)
    features,                \* LinearModel.features (a list)
    feature_transformations, \* LinearModel.feature_transformations
    transformed_data,        \* LinearModel.transformed_data: name -> version of the series
    model_cols,              \* columns of LinearModel.model_data
    window,                  \* the date window model_data is sliced to (0: whole data)
    results,                 \* LinearModel.results
    fixed_coefficients,      \* LinearModel.fixed_coefficients
    last_fixed,              \* history: the name given to set_fixed_coefficient when
                             \* that was the latest call on the model, else ""
    decomp,                  \* inputs and output of a decomposition
    curve_search,            \* inputs and output of a curve search
    raised,                  \* the exception the latest call raised to its
                             \* caller ("": it returned)
    adstock_call,            \* input and output of a call of apply_adstock
    registry,                \* data_store['models']: the object stored under
                             \* each name (models is the set of its keys)
    pending,                 \* the previews of the notebook interface whose
                             \* Confirm and Cancel buttons are still enabled
    wgtd_variables,          \* model.wgtd_variables: the coefficients of the
                             \* components each weighted column was built from
    preview                  \* the call and the outcome of the latest preview
                             \* of an add or a remove of variables

lmvars == <<kpi, features, feature_transformations, transformed_data,
            model_cols, window, results, fixed_coefficients>>
vars == <<models, active_model, kpi, features, feature_transformations,
          transformed_data, model_cols, window, results, fixed_coefficients,
          last_fixed, decomp, curve_search, raised, adstock_call,
          registry, pending, wgtd_variables, preview>>
\* the variables no method of a model and no request on a model touches
aux == <<adstock_call, registry, pending, wgtd_variables, preview>>

----------------------------------------------------------------------------
(* Bounds *)

MaxFeatures == 2
MaxWindow == 1
MaxBatch == 2

----------------------------------------------------------------------------
(* The dataset held by the data loader and the inputs of the operations *)

\* Columns of the loaded dataset: the target "y", two clean regressors and
\* "n", a column with missing values (a lead/lag column) on which OLS raises.
DataCols == {"y", "a", "b", "n"}
NaNCols == {"n"}

\* Names a request can carry: the columns above and "z", which is no column.
InputVars == {"a", "b", "n", "y", "z"}
InputKpis == {"y", "z"}
ModelNames == {"m1"}
AdstockRates == {0, 30}
\* (variable, carry-over rate in percent) pairs an add request can carry
AddInputs == {<<"a", 0>>, <<"a", 30>>, <<"n", 0>>, <<"y", 0>>, <<"z", 0>>, <<"z", 30>>}
FixValues == {2}
TransInputs == {""}
Windows == 0 .. MaxWindow

\* DataLoader.transformations, read from the file's transformation row
LoaderTransformation(name) == IF name = "a" THEN "STA" ELSE ""

----------------------------------------------------------------------------
(* Helpers on lists and dictionaries *)

Range(s) == {s[i] : i \in DOMAIN s}

EmptyDict == [k \in {} |-> 0]

DictSet(d, k, v) == [x \in (DOMAIN d) \cup {k} |-> IF x = k THEN v ELSE d[x]]

DictDel(d, k) == [x \in (DOMAIN d) \ {k} |-> d[x]]

DictRestrict(d, S) == [x \in (DOMAIN d) \cap S |-> d[x]]

\* list.remove(x): drops the first occurrence of x
ListRemove(s, x) ==
    IF x \notin Range(s) THEN s
    ELSE LET i == CHOOSE j \in DOMAIN s :
                     s[j] = x /\ \A k \in DOMAIN s : k < j => s[k] # x
         IN  SubSeq(s, 1, i - 1) \o SubSeq(s, i + 1, Len(s))

RECURSIVE ListRemoveAll(_, _)
\* for var in variables: if var in features: features.remove(var)
ListRemoveAll(s, xs) ==
    IF xs = <<>> THEN s ELSE ListRemoveAll(ListRemove(s, Head(xs)), Tail(xs))

RECURSIVE Dedup(_)
\* columns of a frame built by X[feat] = ... for feat in features:
\* a repeated name overwrites its column, the first position is kept
Dedup(s) ==
    IF s = <<>> THEN <<>>
    ELSE LET d == Dedup(SubSeq(s, 1, Len(s) - 1))
         IN  IF s[Len(s)] \in Range(d) THEN d ELSE Append(d, s[Len(s)])

NoDuplicates(s) == \A i, j \in DOMAIN s : s[i] = s[j] => i = j

Batches(S) == UNION {[1 .. n -> S] : n \in 1 .. MaxBatch}

\* the 'variables' and 'adstockRates' lists of an add request
Variables(items) == [i \in DOMAIN items |-> items[i][1]]
Rates(items) == [i \in DOMAIN items |-> items[i][2]]

----------------------------------------------------------------------------
(* Data versions and fitted results *)

\* f"{var}_adstock_{int(adstock_call*100)}"
AdstockVar(var, rate) == var \o "_adstock_" \o ToString(rate)

\* a series holds missing values when it is, or is derived from, a NaN column
HasNaN(name) == name \in NaNCols \cup {AdstockVar(c, r) : c \in NaNCols, r \in AdstockRates}

\* the raw series of a column of model_data sliced to window w
Raw(w) == [t |-> "", w |-> w]

\* the series _apply_transformation stores: code t on the statistics of window w
Transformed(t, w) == [t |-> t, w |-> w]

NoResults ==
    [ok |-> FALSE, X |-> <<>>, fixed |-> EmptyDict, estX |-> {},
     adj |-> EmptyDict, win |-> 0, src |-> EmptyDict]

\* sm.OLS(y, X).fit() of the target on window w against the design columns
\* `design' ("const" first), column c taken from version src[c]
OLSResult(design, src, w) ==
    [ok |-> TRUE, X |-> design, fixed |-> EmptyDict, estX |-> Range(design),
     adj |-> EmptyDict, win |-> w, src |-> src]

\* index of results.params
ParamKeys(r) == Range(r.X) \cup DOMAIN r.fixed

\* "use transformed data if available": the series a LinearModel fit takes
\* for each feature
ModelSource(feats, td, w) ==
    [f \in Range(feats) |-> IF f \in DOMAIN td THEN td[f] ELSE Raw(w)]

\* model.model_data[model.features]: the handlers fit on the raw columns
RawSource(feats, w) == [f \in Range(feats) |-> Raw(w)]

\* building the design of a LinearModel fit raises KeyError for a feature
\* that is neither transformed nor a column, and OLS raises on missing values
ModelFitRaises(feats, td, cols) ==
    \E f \in Range(feats) : (f \notin DOMAIN td /\ f \notin cols) \/ HasNaN(f)

\* model_data[kpi] and model_data[features] raise KeyError, OLS raises on NaN
RawFitRaises(k, feats, cols) ==
    \/ k = ""
    \/ \E f \in Range(feats) : f \notin cols \/ HasNaN(f)

\* initialize_model fitting on the whole dataset instead of model_data
InitializeModel_OnAllData(k, w, old) ==
    IF k = "" THEN old ELSE OLSResult(<<"const">>, EmptyDict, 0)

\* initialize_model: the target against the constant alone
InitializeModel(k, w, old) ==
    IF k = "" THEN old ELSE OLSResult(<<"const">>, EmptyDict, w)

\* the ordinary fit of all features, as add_feature, remove_feature and
\* _refit_model build it
OrdinaryFit(feats, td, w) ==
    OLSResult(<<"const">> \o Dedup(feats), ModelSource(feats, td, w), w)

\* _apply_transformation: stores the transformed series of a column of
\* model_data, computed on the statistics of the current window
ApplyTransformation(td, f, t, cols, w) ==
    IF f \notin cols THEN td ELSE DictSet(td, f, Transformed(t, w))

\* _reapply_transformations: nothing without features; otherwise the
\* dictionary is cleared and every feature with a transformation recomputed
ReapplyTransformations(feats, ft, td, cols, w) ==
    IF feats = <<>> THEN td
    ELSE [f \in {g \in Range(feats) : g \in DOMAIN ft /\ g \in cols}
              |-> Transformed(ft[f], w)]

\* _refit_model: nothing without features or KPI; an exception is caught and
\* leaves the stored results
RefitModel(k, feats, td, cols, w, old) ==
    IF feats = <<>> \/ k = "" THEN old
    ELSE IF ModelFitRaises(feats, td, cols) THEN old
    ELSE OrdinaryFit(feats, td, w)

\* _refit_model_with_fixed_coefficients
RefitWithFixed(k, feats, td, cols, w, fixed, old) ==
    IF feats = <<>> \/ k = "" THEN old
    ELSE IF ModelFitRaises(feats, td, cols) THEN old
    ELSE IF DOMAIN fixed = {} THEN OrdinaryFit(feats, td, w)
    ELSE LET remaining == {f \in Range(feats) : f \notin DOMAIN fixed}
             allFixed  == remaining = {} /\ "const" \in DOMAIN fixed
         IN  [ok    |-> TRUE,
              X     |-> <<"const">> \o Dedup(feats),
              \* params[var] = coef for every entry of fixed_coefficients
              fixed |-> fixed,
              \* the regression of the adjusted target on the rest
              estX  |-> IF allFixed THEN {}
                        ELSE remaining \cup
                             (IF "const" \in DOMAIN fixed THEN {} ELSE {"const"}),
              \* entries of names that are no feature are skipped
              adj   |-> DictRestrict(fixed, Range(feats) \cup {"const"}),
              win   |-> w,
              src   |-> ModelSource(feats, td, w)]

----------------------------------------------------------------------------
(* The state before a model is created *)

NoModel ==
    /\ kpi = ""
    /\ features = <<>>
    /\ feature_transformations = EmptyDict
    /\ transformed_data = EmptyDict
    /\ model_cols = {}
    /\ window = 0
    /\ results = NoResults
    /\ fixed_coefficients = EmptyDict

NoDecomp == [stage |-> "none"]

NoSearch == [stage |-> "none"]

NoAdstock == [stage |-> "none"]

NoPreview == [stage |-> "none"]

Init ==
    /\ models = {}
    /\ active_model = ""
    /\ NoModel
    /\ last_fixed = ""
    /\ decomp = NoDecomp
    /\ curve_search = NoSearch
    /\ raised = ""
    /\ adstock_call = NoAdstock
    /\ pending = <<>>
    /\ registry = [n \in models |-> 1]
    /\ preview = NoPreview
    /\ wgtd_variables = EmptyDict

----------------------------------------------------------------------------
(* LinearModel methods *)

\* LinearModel.add_feature(feature_name, transformation)
add_feature(f, t) ==
    /\ models # {}
    /\ Len(features) < MaxFeatures
    /\ last_fixed' = "" /\ raised' = "" /\ UNCHANGED aux
    /\ UNCHANGED <<models, active_model, kpi, model_cols, window,
                   fixed_coefficients, decomp, curve_search>>
    /\ IF kpi = "" \/ f \notin model_cols \/ f = kpi \/ f \in Range(features)
       THEN /\ UNCHANGED <<features, feature_transformations, transformed_data, results>>
       ELSE LET tr     == IF t # "" THEN t ELSE LoaderTransformation(f)
                ft1    == IF tr # "" THEN DictSet(feature_transformations, f, tr)
                          ELSE feature_transformations
                td1    == IF tr # ""
                          THEN ApplyTransformation(transformed_data, f, tr, model_cols, window)
                          ELSE transformed_data
                feats1 == Append(features, f)
            IN  IF ModelFitRaises(feats1, td1, model_cols)
                THEN \* except: the feature is taken out again
                     /\ features' = ListRemove(feats1, f)
                     /\ feature_transformations' = DictDel(ft1, f)
                     /\ transformed_data' = DictDel(td1, f)
                     /\ results' = results
                ELSE /\ features' = feats1
                     /\ feature_transformations' = ft1
                     /\ transformed_data' = td1
                     /\ results' = OrdinaryFit(feats1, td1, window)

\* LinearModel.remove_feature(feature_name)
remove_feature(f) ==
    /\ models # {}
    /\ last_fixed' = "" /\ raised' = "" /\ UNCHANGED aux
    /\ UNCHANGED <<models, active_model, kpi, model_cols, window,
                   fixed_coefficients, decomp, curve_search>>
    /\ IF f \notin Range(features)
       THEN /\ UNCHANGED <<features, feature_transformations, transformed_data, results>>
       ELSE LET feats1 == ListRemove(features, f)
                td1    == DictDel(transformed_data, f)
                raises == feats1 # <<>> /\
                          (kpi = "" \/ ModelFitRaises(feats1, td1, model_cols))
            IN  /\ features' = feats1
                /\ feature_transformations' = DictDel(feature_transformations, f)
                /\ transformed_data' = td1
                /\ results' = IF feats1 = <<>> THEN InitializeModel(kpi, window, results)
                              ELSE IF raises THEN results
                              ELSE OrdinaryFit(feats1, td1, window)

\* the body of LinearModel.set_date_range(start_date, end_date)
SetDateRange(w) ==
    LET cols1 == DataCols     \* model_data = data.copy(), then sliced
        td1   == ReapplyTransformations(features, feature_transformations,
                                        transformed_data, cols1, w)
    IN  /\ window' = w
        /\ model_cols' = cols1
        /\ transformed_data' = td1
        /\ results' = RefitModel(kpi, features, td1, cols1, w, results)
        /\ last_fixed' = "" /\ raised' = "" /\ UNCHANGED aux
        /\ UNCHANGED <<models, active_model, kpi, features,
                       feature_transformations, fixed_coefficients, decomp, curve_search>>

\* LinearModel.set_date_range; window 0 is (None, None)
set_date_range(w) ==
    /\ models # {}
    /\ SetDateRange(w)

\* LinearModel.set_fixed_coefficient(variable_name, value)
set_fixed_coefficient(v, c) ==
    /\ models # {}
    /\ UNCHANGED <<models, active_model, kpi, features, feature_transformations,
                   transformed_data, model_cols, window, decomp, curve_search>>
    /\ IF v \notin Range(features) /\ v # "const"
       THEN \* raise ValueError
            /\ UNCHANGED <<fixed_coefficients, results>>
            /\ last_fixed' = ""
            /\ raised' = "ValueError" /\ UNCHANGED aux
       ELSE LET fixed1 == DictSet(fixed_coefficients, v, c)
            IN  /\ fixed_coefficients' = fixed1
                /\ results' = RefitWithFixed(kpi, features, transformed_data,
                                             model_cols, window, fixed1, results)
                /\ last_fixed' = v
                /\ raised' = "" /\ UNCHANGED aux

\* LinearModel.unset_fixed_coefficient(variable_name)
unset_fixed_coefficient(v) ==
    /\ models # {}
    /\ last_fixed' = "" /\ raised' = "" /\ UNCHANGED aux
    /\ UNCHANGED <<models, active_model, kpi, features, feature_transformations,
                   transformed_data, model_cols, window, decomp, curve_search>>
    /\ IF v \in DOMAIN fixed_coefficients
       THEN LET fixed1 == DictDel(fixed_coefficients, v)
            IN  /\ fixed_coefficients' = fixed1
                /\ results' = RefitWithFixed(kpi, features, transformed_data,
                                             model_cols, window, fixed1, results)
       ELSE UNCHANGED <<fixed_coefficients, results>>

----------------------------------------------------------------------------
(* HTTP handlers of the application *)

\* a new object: one that is not stored in the registry
NewObject(reg) ==
    CHOOSE i \in 1 .. (Cardinality(DOMAIN reg) + 1) :
        /\ \A n \in DOMAIN reg : reg[n] # i
        /\ \A j \in 1 .. (i - 1) : \E n \in DOMAIN reg : reg[n] = j

\* create_model: LinearModel(), set_data, set_kpi, initialize_model, register.
\* set_kpi returns without setting the KPI when the column is not in the data
create_model(name, k) ==
    /\ last_fixed' = "" /\ raised' = "" /\ UNCHANGED <<adstock_call, pending, wgtd_variables, preview>>
    /\ UNCHANGED <<decomp, curve_search>>
    /\ IF name \in models
       THEN /\ UNCHANGED <<models, active_model, lmvars, registry>>
       ELSE LET k1 == IF k \in DataCols THEN k ELSE ""
            IN  /\ model_cols' = DataCols
                /\ window' = 0
                /\ kpi' = k1
                /\ results' = InitializeModel(k1, 0, NoResults)
                /\ features' = <<>>
                /\ feature_transformations' = EmptyDict
                /\ transformed_data' = EmptyDict
                /\ fixed_coefficients' = EmptyDict
                /\ models' = models \cup {name}
                /\ registry' = DictSet(registry, name, NewObject(registry))
                /\ active_model' = name

RECURSIVE AddVarLoop(_, _, _, _)
\* the loop of add_variable over the requested variables: model_data[var]
\* raises KeyError for an unknown variable with carry-over, which leaves the
\* loop with what has been appended so far
AddVarLoop(feats, cols, variables, rates) ==
    IF variables = <<>> THEN [features |-> feats, cols |-> cols, raised |-> FALSE]
    ELSE LET var == Head(variables)
             adstock == Head(rates)
         IN  IF adstock > 0
             THEN IF var \notin cols
                  THEN [features |-> feats, cols |-> cols, raised |-> TRUE]
                  ELSE AddVarLoop(Append(feats, AdstockVar(var, adstock)),
                                  cols \cup {AdstockVar(var, adstock)},
                                  Tail(variables), Tail(rates))
             ELSE AddVarLoop(Append(feats, var), cols, Tail(variables), Tail(rates))

\* add_variable
add_variable(name, variables, rates) ==
    /\ Len(rates) = Len(variables)
    /\ Len(features) + Len(variables) <= MaxFeatures
    /\ last_fixed' = "" /\ raised' = "" /\ UNCHANGED aux
    /\ UNCHANGED <<models, active_model, kpi, feature_transformations,
                   transformed_data, window, fixed_coefficients, decomp, curve_search>>
    /\ IF name \notin models
       THEN UNCHANGED <<features, model_cols, results>>
       ELSE LET r == AddVarLoop(features, model_cols, variables, rates)
                raises == r.raised \/ RawFitRaises(kpi, r.features, r.cols)
            IN  /\ features' = r.features
                /\ model_cols' = r.cols
                /\ results' = IF raises THEN results
                              ELSE OLSResult(<<"const">> \o r.features,
                                             RawSource(r.features, window), window)

\* remove_variable: after the removal the target is always fitted against the
\* constant alone
remove_variable(name, variables) ==
    /\ last_fixed' = "" /\ raised' = "" /\ UNCHANGED aux
    /\ UNCHANGED <<models, active_model, kpi, feature_transformations,
                   transformed_data, model_cols, window, fixed_coefficients, decomp, curve_search>>
    /\ IF name \notin models \/ \E i \in DOMAIN variables : variables[i] \notin Range(features)
       THEN UNCHANGED <<features, results>>
       ELSE /\ features' = ListRemoveAll(features, variables)
            /\ results' = IF kpi = "" THEN results
                          ELSE OLSResult(<<"const">>, EmptyDict, window)

\* remove_variables_from_model(model, variable_names): the preview model, a
\* deep copy of the model without the named features, fitted on the raw
\* columns of model_data, or initialised anew when no feature is left;
\* ok is FALSE where the function returns no preview model
RemoveVariablesFromModel(k, feats, cols, w, res, variable_names) ==
    LET feats1 == ListRemoveAll(feats, variable_names)
    IN  IF ~res.ok
        THEN [ok |-> FALSE, features |-> feats, results |-> res]
        ELSE IF feats1 # <<>>
        THEN IF RawFitRaises(k, feats1, cols)
             THEN [ok |-> FALSE, features |-> feats, results |-> res]
             ELSE [ok |-> TRUE, features |-> feats1,
                   results |-> OLSResult(<<"const">> \o feats1, RawSource(feats1, w), w)]
        ELSE [ok |-> TRUE, features |-> feats1, results |-> InitializeModel(k, w, res)]

\* interface.remove_var followed by the click on Confirm: the preview model
\* becomes the model
remove_var(variables) ==
    /\ models # {}
    /\ last_fixed' = "" /\ raised' = "" /\ UNCHANGED aux
    /\ UNCHANGED <<models, active_model, kpi, feature_transformations,
                   transformed_data, model_cols, window, fixed_coefficients, decomp, curve_search>>
    /\ LET r == RemoveVariablesFromModel(kpi, features, model_cols, window,
                                         results, variables)
       IN  /\ features' = r.features
           /\ results' = r.results

\* filter_model: both dates are required, then model.set_date_range
filter_model(name, w) ==
    IF name \notin models \/ w = 0
    THEN /\ last_fixed' = "" /\ raised' = "" /\ UNCHANGED aux
         /\ UNCHANGED <<models, active_model, lmvars, decomp, curve_search>>
    ELSE SetDateRange(w)

\* the deleted model stays the active one
ActiveAfterDelete_Keep(active, name) == active

\* "If this was the active model, set active model to None"
ActiveAfterDelete(active, name) == IF active = name THEN "" ELSE active

\* delete_model
delete_model(name) ==
    /\ last_fixed' = "" /\ raised' = "" /\ UNCHANGED <<adstock_call, pending, wgtd_variables, preview>>
    /\ UNCHANGED <<decomp, curve_search>>
    /\ IF name \notin models
       THEN /\ UNCHANGED <<models, active_model, lmvars, registry>>
       ELSE /\ models' = models \ {name}
            /\ registry' = DictDel(registry, name)
            /\ active_model' = ActiveAfterDelete(active_model, name)
            /\ kpi' = ""
            /\ features' = <<>>
            /\ feature_transformations' = EmptyDict
            /\ transformed_data' = EmptyDict
            /\ model_cols' = {}
            /\ window' = 0
            /\ results' = NoResults
            /\ fixed_coefficients' = EmptyDict

----------------------------------------------------------------------------
FixNames == {"const", "a"}

Next ==
    \/ \E name \in ModelNames, k \in InputKpis : create_model(name, k)
    \/ \E f \in InputVars, t \in TransInputs : add_feature(f, t)
    \/ \E f \in InputVars : remove_feature(f)
    \/ \E w \in Windows : set_date_range(w)
    \/ \E v \in FixNames, c \in FixValues : set_fixed_coefficient(v, c)
    \/ \E v \in FixNames : unset_fixed_coefficient(v)
    \/ \E name \in ModelNames, items \in Batches(AddInputs) :
          add_variable(name, Variables(items), Rates(items))
    \/ \E name \in ModelNames, vs \in Batches(InputVars) : remove_variable(name, vs)
    \/ \E vs \in Batches(InputVars) : remove_var(vs)
    \/ \E name \in ModelNames, w \in Windows : filter_model(name, w)
    \/ \E name \in ModelNames : delete_model(name)

Spec == Init /\ [][Next]_vars

----------------------------------------------------------------------------
(* Decomposition (decomposition.py)                                        *)
(* Series are functions over the rows of model_data.  Every contribution    *)
(* is held multiplied by Den, so that the division by the total weight of   *)
(* a weighted variable is exact.                                            *)

NumRows == 2
Rows == 1 .. NumRows

\* common multiple of the total weights that occur
Den == 3 * 4

\* the fitted model that is decomposed: y ~ const + a + w|WGTD, where
\* w|WGTD was created from the columns a and b
WgtdName == "w|WGTD"
DecompFeatures == <<"a", WgtdName>>
ComponentCoefs == {-1, 0, 2}
FittedCoefs == {-1, 2}
InterceptCoefs == {3}

\* columns of model_data
SeriesA == <<1, 3>> \o [i \in 1 .. (NumRows - 2) |-> i]
SeriesB == <<2, 0>> \o [i \in 1 .. (NumRows - 2) |-> 1]
SeriesY == <<7, 5>> \o [i \in 1 .. (NumRows - 2) |-> 4]

\* create_weighted_variable_with_coefficients: model_data[var_name] is the
\* coefficient-weighted sum of the component columns
WeightedColumn(components) ==
    [t \in Rows |-> (IF "a" \in DOMAIN components THEN components["a"] * SeriesA[t] ELSE 0)
                  + (IF "b" \in DOMAIN components THEN components["b"] * SeriesB[t] ELSE 0)]

ModelData(wgtd) ==
    [c \in {"y", "a", "b", WgtdName} |->
        IF c = "y" THEN [t \in Rows |-> SeriesY[t]]
        ELSE IF c = "a" THEN [t \in Rows |-> SeriesA[t]]
        ELSE IF c = "b" THEN [t \in Rows |-> SeriesB[t]]
        ELSE IF WgtdName \in DOMAIN wgtd THEN WeightedColumn(wgtd[WgtdName])
        ELSE [t \in Rows |-> SeriesB[t] + 1]]

ZeroSeries == [t \in Rows |-> 0]

SeriesAdd(s1, s2) == [t \in Rows |-> s1[t] + s2[t]]

Abs(x) == IF x < 0 THEN -x ELSE x

SeriesMin(s) == CHOOSE m \in Range(s) : \A t \in Rows : m <= s[t]

SeriesMax(s) == CHOOSE m \in Range(s) : \A t \in Rows : m >= s[t]

RECURSIVE SumOver(_, _)
\* sum of the series d[k] for k in S
SumOver(d, S) ==
    IF S = {} THEN ZeroSeries
    ELSE LET k == CHOOSE x \in S : TRUE
         IN  SeriesAdd(d[k], SumOver(d, S \ {k}))

RECURSIVE SumValues(_, _)
\* sum of the numbers d[k] for k in S
SumValues(d, S) ==
    IF S = {} THEN 0
    ELSE LET k == CHOOSE x \in S : TRUE
         IN  d[k] + SumValues(d, S \ {k})

\* transformation codes of the features of the decomposed model
DecompTransformations == {"", "SUB"}

\* _apply_transformation, as Den times the series it stores: SUB subtracts
\* the mean of the column over model_data, a code it does not know keeps the
\* original series
ApplyTransformationSeries(original, transformation) ==
    IF transformation = "SUB"
    THEN [t \in Rows |-> Den * original[t]
                           - (Den * SumValues(original, Rows)) \div NumRows]
    ELSE [t \in Rows |-> Den * original[t]]

\* the column of the design the fit was computed on, times Den: the constant,
\* the transformed series of a feature that has one, else the raw column
FitValues(data, ft, v) ==
    IF v = "const" THEN [t \in Rows |-> Den]
    ELSE IF v \in DOMAIN ft THEN ApplyTransformationSeries(data[v], ft[v])
    ELSE [t \in Rows |-> Den * data[v][t]]

\* model.results.predict(sm.add_constant(data[model.features]))
Predicted(coefficients, data) ==
    [t \in Rows |-> Den * (coefficients["const"]
                           + SumValues([f \in Range(DecompFeatures) |->
                                            coefficients[f] * data[f][t]],
                                       Range(DecompFeatures)))]

\* the first loop of calculate_decomposition: coef * values for every entry
\* of groups that has a coefficient and a column
VarContributions(coefficients, data, groups) ==
    [v \in {u \in DOMAIN groups :
               u \in DOMAIN coefficients /\ (u = "const" \/ u \in DOMAIN data)} |->
        IF v = "const" THEN [t \in Rows |-> Den * coefficients[v]]
        ELSE [t \in Rows |-> Den * coefficients[v] * data[v][t]]]

\* sum(abs(coef) for coef in components.values())
TotalWeight(components) ==
    SumValues([c \in DOMAIN components |-> Abs(components[c])], DOMAIN components)

\* wgtd_contribution * (component_coef / total_weight)
ComponentContribution(wgtd_contribution, component_coef, total_weight) ==
    [t \in Rows |-> (wgtd_contribution[t] * component_coef) \div total_weight]

\* the weighted-variable block of calculate_decomposition for one weighted
\* variable: its contribution is replaced by those of its components, and a
\* component without a group gets the group of the weighted variable
ExpandWeighted(vc, groups, wgtd_var, components) ==
    IF wgtd_var \notin DOMAIN vc \/ ~(TotalWeight(components) > 0)
    THEN [vc |-> vc, groups |-> groups]
    ELSE LET tw   == TotalWeight(components)
             rest == DOMAIN vc \ {wgtd_var}
             vc1  == [v \in rest \cup DOMAIN components |->
                        SeriesAdd(IF v \in rest THEN vc[v] ELSE ZeroSeries,
                                  IF v \in DOMAIN components
                                  THEN ComponentContribution(vc[wgtd_var], components[v], tw)
                                  ELSE ZeroSeries)]
             g1   == [v \in DOMAIN groups \cup
                            (IF wgtd_var \in DOMAIN groups THEN DOMAIN components ELSE {}) |->
                        IF v \in DOMAIN groups THEN groups[v] ELSE groups[wgtd_var]]
         IN  [vc |-> vc1, groups |-> g1]

RECURSIVE ExpandAllWeighted(_, _, _, _)
\* for wgtd_var, wgtd_info in model.wgtd_variables.items()
ExpandAllWeighted(vc, groups, wgtd, todo) ==
    IF todo = {} THEN [vc |-> vc, groups |-> groups]
    ELSE LET w == CHOOSE x \in todo : TRUE
             r == ExpandWeighted(vc, groups, w, wgtd[w])
         IN  ExpandAllWeighted(r.vc, r.groups, wgtd, todo \ {w})

\* adjustment_values: the minimum (Min) or maximum (Max) taken off a variable
AdjustmentValues(vc, groups) ==
    [v \in {u \in DOMAIN vc \cap DOMAIN groups : groups[u].Adjustment \in {"Min", "Max"}} |->
        IF groups[v].Adjustment = "Min" THEN SeriesMin(vc[v]) ELSE SeriesMax(vc[v])]

\* the adjusted contribution of one variable
Adjusted(vc, groups, v) ==
    IF groups[v].Adjustment = "Min"
    THEN [t \in Rows |-> vc[v][t] - SeriesMin(vc[v])]
    ELSE IF groups[v].Adjustment = "Max"
    THEN [t \in Rows |-> vc[v][t] - SeriesMax(vc[v])]
    ELSE vc[v]

\* grouped_contributions before the adjustments are given to Base
GroupedContributions(vc, groups) ==
    LET grouped == DOMAIN vc \cap DOMAIN groups
        adj     == [v \in grouped |-> Adjusted(vc, groups, v)]
    IN  [g \in {groups[v].Group : v \in grouped} |->
            SumOver(adj, {v \in grouped : groups[v].Group = g})]

\* "Add total adjustment to Base": only when a Base group has been built
AddAdjustmentToBase(grouped, adjustment_values) ==
    IF "Base" \in DOMAIN grouped /\ DOMAIN adjustment_values # {}
    THEN LET total_adjustment == SumValues(adjustment_values, DOMAIN adjustment_values)
         IN  [g \in DOMAIN grouped |->
                IF g = "Base" THEN [t \in Rows |-> grouped[g][t] + total_adjustment]
                ELSE grouped[g]]
    ELSE grouped

\* calculate_decomposition(model, groups): the table returned, the groups
\* dictionary as the call leaves it, and the intermediate dictionaries
CalculateDecomposition(coefficients, data, wgtd, groups) ==
    LET vc0 == VarContributions(coefficients, data, groups)
        ex  == ExpandAllWeighted(vc0, groups, wgtd, DOMAIN wgtd)
        av  == AdjustmentValues(ex.vc, ex.groups)
        gc  == AddAdjustmentToBase(GroupedContributions(ex.vc, ex.groups), av)
    IN  [Actual    |-> [t \in Rows |-> Den * data["y"][t]],
         Predicted |-> Predicted(coefficients, data),
         Groups    |-> gc,
         groups    |-> ex.groups,
         var_contributions |-> vc0,
         expanded  |-> ex.vc,
         adjustment_values |-> av]

\* expand_weighted_variable_contributions for one weighted variable: the
\* column is dropped and every component credited, unless the total weight is 0
ExpandColumn(df, var_name, components) ==
    IF var_name \notin DOMAIN df \/ DOMAIN components = {} THEN df
    ELSE LET tw   == TotalWeight(components)
             rest == DOMAIN df \ {var_name}
         IN  IF tw = 0 THEN [v \in rest |-> df[v]]
             ELSE [v \in rest \cup DOMAIN components |->
                     SeriesAdd(IF v \in rest THEN df[v] ELSE ZeroSeries,
                               IF v \in DOMAIN components
                               THEN ComponentContribution(df[var_name], components[v], tw)
                               ELSE ZeroSeries)]

RECURSIVE ExpandWeightedVariableContributions(_, _, _)
\* expand_weighted_variable_contributions(model, contributions_df)
ExpandWeightedVariableContributions(df, wgtd, todo) ==
    IF todo = {} THEN df
    ELSE LET w == CHOOSE x \in todo : TRUE
         IN  ExpandWeightedVariableContributions(ExpandColumn(df, w, wgtd[w]), wgtd, todo \ {w})

----------------------------------------------------------------------------
(* Decomposition of a fitted model *)

GroupNames == {"Base", "Media"}
Adjustments == {"", "Min", "Max"}
GroupInfos == [Group : GroupNames, Adjustment : Adjustments]

\* the group maps a caller can pass: any assignment of some of the fitted
\* variables, the component b with or without a group of its own
GroupMaps ==
    UNION {[D -> GroupInfos] : D \in SUBSET {"const", "a", WgtdName}}
    \cup UNION {[D \cup {"b"} -> [Group : {"Media"}, Adjustment : {""}]] :
                   D \in SUBSET {"const", "a", WgtdName}}

\* model.wgtd_variables: none, or w|WGTD with its components' coefficients
WeightedVariables ==
    {EmptyDict} \cup
    {[w \in {WgtdName} |-> [c \in {"a", "b"} |-> IF c = "a" THEN ca ELSE cb]] :
        ca \in ComponentCoefs, cb \in ComponentCoefs}

\* model.results.params of the fitted model
Coefficients ==
    {[v \in {"const", "a", WgtdName} |->
        IF v = "const" THEN k0 ELSE IF v = "a" THEN ka ELSE kw] :
        k0 \in InterceptCoefs, ka \in FittedCoefs, kw \in FittedCoefs}

NoTable ==
    [Actual |-> ZeroSeries, Predicted |-> ZeroSeries, Groups |-> EmptyDict,
     groups |-> EmptyDict, var_contributions |-> EmptyDict, expanded |-> EmptyDict,
     adjustment_values |-> EmptyDict]

DecompInit ==
    /\ models = {"m1"}
    /\ active_model = "m1"
    /\ kpi = "y"
    /\ features = DecompFeatures
    /\ feature_transformations \in
          {[f \in (IF tr = "" THEN {} ELSE {"a"}) |-> tr] : tr \in DecompTransformations}
    /\ transformed_data =
          [f \in DOMAIN feature_transformations |->
              Transformed(feature_transformations[f], 0)]
    /\ model_cols = {"y", "a", "b", WgtdName}
    /\ window = 0
    /\ results = OrdinaryFit(DecompFeatures, transformed_data, 0)
    /\ fixed_coefficients = EmptyDict
    /\ last_fixed = ""
    /\ curve_search = NoSearch
    /\ raised = ""
    /\ adstock_call = NoAdstock
    /\ pending = <<>>
    /\ registry = [n \in models |-> 1]
    /\ preview = NoPreview
    /\ decomp \in {[stage |-> "input", coefficients |-> c, wgtd |-> w,
                    groups_in |-> g, groups |-> g, table |-> NoTable,
                    df |-> EmptyDict, group_name |-> "",
                    group_df |-> EmptyDict, Total |-> ZeroSeries] :
                      c \in Coefficients, w \in WeightedVariables, g \in GroupMaps}
    /\ wgtd_variables = decomp.wgtd

\* calculate_decomposition(model, groups)
calculate_decomposition ==
    /\ decomp.stage = "input"
    /\ LET r == CalculateDecomposition(decomp.coefficients, ModelData(decomp.wgtd),
                                       decomp.wgtd, decomp.groups)
       IN  decomp' = [decomp EXCEPT !.stage = "decomposed", !.table = r,
                                    !.groups = r.groups]
    /\ UNCHANGED <<models, active_model, lmvars, last_fixed, curve_search>>
    /\ raised' = "" /\ UNCHANGED aux

\* the frame of per-variable contributions handed to
\* expand_weighted_variable_contributions: one column per fitted variable
ContributionsFrame(coefficients, data) ==
    [v \in DOMAIN coefficients |->
        IF v = "const" THEN [t \in Rows |-> Den * coefficients[v]]
        ELSE [t \in Rows |-> Den * coefficients[v] * data[v][t]]]

\* expand_weighted_variable_contributions(model, contributions_df)
expand_weighted_variable_contributions ==
    /\ decomp.stage = "input"
    /\ LET df0 == ContributionsFrame(decomp.coefficients, ModelData(decomp.wgtd))
       IN  decomp' = [decomp EXCEPT
                        !.stage = "expanded",
                        !.table = [NoTable EXCEPT !.var_contributions = df0],
                        !.df = ExpandWeightedVariableContributions(
                                   df0, decomp.wgtd, DOMAIN decomp.wgtd)]
    /\ UNCHANGED <<models, active_model, lmvars, last_fixed, curve_search>>
    /\ raised' = "" /\ UNCHANGED aux

\* the first loop of calculate_group_decomposition: the adjusted contribution
\* of every entry of groups that is in the group and has a coefficient and
\* a column
GroupVariables(coefficients, data, groups, group_name) ==
    [v \in {u \in DOMAIN groups :
               /\ groups[u].Group = group_name
               /\ u \in DOMAIN coefficients
               /\ (u = "const" \/ u \in DOMAIN data)} |->
        LET contribution ==
                IF v = "const" THEN [t \in Rows |-> Den * coefficients[v]]
                ELSE [t \in Rows |-> Den * coefficients[v] * data[v][t]]
        IN  IF groups[v].Adjustment = "Min"
            THEN [t \in Rows |-> contribution[t] - SeriesMin(contribution)]
            ELSE IF groups[v].Adjustment = "Max"
            THEN [t \in Rows |-> contribution[t] - SeriesMax(contribution)]
            ELSE contribution]

\* the weighted-variable block of calculate_group_decomposition: a column
\* for every component of a weighted variable of the group, nothing added
\* to the total
GroupComponents(coefficients, data, wgtd, groups, group_name) ==
    LET ws == {w \in DOMAIN wgtd :
                  /\ w \in DOMAIN coefficients
                  /\ w \in DOMAIN groups
                  /\ groups[w].Group = group_name
                  /\ w \in DOMAIN data
                  /\ TotalWeight(wgtd[w]) # 0}
    IN  IF ws = {} THEN EmptyDict
        ELSE LET w == CHOOSE x \in ws : TRUE
             IN  [c \in DOMAIN wgtd[w] |->
                    ComponentContribution(
                        [t \in Rows |-> Den * coefficients[w] * data[w][t]],
                        wgtd[w][c], TotalWeight(wgtd[w]))]

\* calculate_group_decomposition(model, groups, group_name): the columns of
\* the variables and the Total column
CalculateGroupDecomposition(coefficients, data, wgtd, groups, group_name) ==
    LET gv == GroupVariables(coefficients, data, groups, group_name)
        gc == GroupComponents(coefficients, data, wgtd, groups, group_name)
    IN  [columns |-> [v \in DOMAIN gv \cup DOMAIN gc |->
                         IF v \in DOMAIN gc THEN gc[v] ELSE gv[v]],
         Total   |-> SumOver(gv, DOMAIN gv)]

\* calculate_group_decomposition(model, groups, group_name)
calculate_group_decomposition(group_name) ==
    /\ decomp.stage = "input"
    /\ LET r == CalculateGroupDecomposition(decomp.coefficients, ModelData(decomp.wgtd),
                                            decomp.wgtd, decomp.groups, group_name)
       IN  decomp' = [decomp EXCEPT !.stage = "group", !.group_name = group_name,
                                    !.group_df = r.columns, !.Total = r.Total]
    /\ UNCHANGED <<models, active_model, lmvars, last_fixed, curve_search>>
    /\ raised' = "" /\ UNCHANGED aux

DecompNext ==
    \/ calculate_decomposition
    \/ expand_weighted_variable_contributions
    \/ \E g \in GroupNames : calculate_group_decomposition(g)

DecompSpec == DecompInit /\ [][DecompNext]_vars

----------------------------------------------------------------------------
(* Curve search (curve_transformations.py, improved_curve_testing.py and    *)
(* the test-curves handler of the application)                              *)
(* The alphas of the grids are held in tenths.                              *)

Alphas(curve_type) == IF curve_type = "ICP" THEN <<30, 40>> ELSE <<8, 9, 10>>

Betas(curve_type) == IF curve_type = "ICP" THEN <<3, 4, 5>> ELSE <<2, 3, 4>>

\* generate_gamma_options: the sorted distinct rounded values computed from
\* the statistics of the column; a column of small values rounds to 0.0
GammaOptionLists == {<<1>>, <<1, 2>>, <<0, 1>>, <<0>>}

\* the t-statistics OLS reports for the candidates: one of a family of
\* assignments of a value to every (alpha, beta, gamma)
TStatProfiles == {1, 2, 3}

TStat(profile, alpha, beta, gamma) ==
    ((alpha * profile + beta * (profile + 1) + 3 * gamma) % 7) - 3

\* f"{alpha:.1f}".rstrip('0').rstrip('.') for an alpha given in tenths
AlphaStr(alpha) ==
    IF alpha % 10 = 0 THEN ToString(alpha \div 10)
    ELSE ToString(alpha \div 10) \o "." \o ToString(alpha % 10)

\* f"{variable_name}|{transform_type} a{alpha_str}_b{beta_str}_g{gamma_str}"
TransformName(variable_name, curve_type, alpha, beta, gamma) ==
    variable_name \o "|" \o curve_type \o " a" \o AlphaStr(alpha)
        \o "_b" \o ToString(beta) \o "_g" \o ToString(gamma)

\* for alpha in alphas: for beta in betas: for gamma in gamma_options
Grid(curve_type, gamma_options) ==
    LET na == Len(Alphas(curve_type))
        nb == Len(Betas(curve_type))
        ng == Len(gamma_options)
    IN  [i \in 1 .. (na * nb * ng) |->
            [Alpha |-> Alphas(curve_type)[((i - 1) \div (nb * ng)) + 1],
             Beta  |-> Betas(curve_type)[(((i - 1) \div ng) % nb) + 1],
             Gamma |-> gamma_options[((i - 1) % ng) + 1]]]

\* ((alpha - 1) / (alpha + 1)) ** (1 / alpha) in hundredths, rounded down,
\* for a whole alpha above 1 given in tenths
SwitchFactor(alpha) ==
    LET a == alpha \div 10
    IN  CHOOSE k \in 0 .. 100 :
            /\ (k ^ a) * (a + 1) <= (a - 1) * (100 ^ a)
            /\ ((k + 1) ^ a) * (a + 1) > (a - 1) * (100 ^ a)

\* the value stored under 'Switch Point', in hundredths: None is the empty
\* sequence
SwitchPoint_DefaultGamma(curve_type, alpha, gamma) ==
    IF curve_type = "ICP" /\ alpha > 10 THEN <<2 * SwitchFactor(alpha)>> ELSE <<0>>

SwitchPoint(curve_type, alpha, gamma) ==
    IF curve_type = "ICP" /\ alpha > 10 THEN <<gamma * SwitchFactor(alpha)>> ELSE <<>>

NoCandidate ==
    [Variable |-> "", TStat |-> 0, Alpha |-> 0, Beta |-> 0, Gamma |-> 0, X |-> <<>>,
     SwitchPoint |-> <<>>]

\* the evaluation writes the transformed column into model.model_data itself
TestCurveTransformModel_InPlace(res, k, feats, cols, variable_name, curve_type, cand, profile) ==
    LET transform_name ==
            TransformName(variable_name, curve_type, cand.Alpha, cand.Beta, cand.Gamma)
        raises == cand.Gamma = 0 \/ HasNaN(variable_name) \/ RawFitRaises(k, feats, cols)
    IN  IF ~res.ok \/ variable_name \notin cols
        THEN [ok |-> FALSE, result |-> NoCandidate, features |-> feats, model_cols |-> cols]
        ELSE IF raises
        THEN [ok |-> FALSE, result |-> NoCandidate, features |-> feats,
              model_cols |-> cols \cup {transform_name}]
        ELSE [ok |-> TRUE,
              result |-> [Variable |-> transform_name,
                          TStat |-> TStat(profile, cand.Alpha, cand.Beta, cand.Gamma),
                          Alpha |-> cand.Alpha, Beta |-> cand.Beta, Gamma |-> cand.Gamma,
                          X |-> <<"const">> \o feats \o <<transform_name>>,
                          SwitchPoint |-> SwitchPoint(curve_type, cand.Alpha, cand.Gamma)],
              features |-> feats, model_cols |-> cols \cup {transform_name}]

\* test_curve_transform_model: None without a fitted model or for a variable
\* that is no column; the candidate is fitted on a copy of model_data with
\* the transformed column, next to a copy of the feature list; an exception
\* (a non-finite transformed series when gamma is 0 or the column has
\* missing values, a design that cannot be built or fitted) gives None.
\* Returned with the result: the feature list and the columns of the model
\* after the call.
TestCurveTransformModel(res, k, feats, cols, variable_name, curve_type, cand, profile) ==
    LET transform_name ==
            TransformName(variable_name, curve_type, cand.Alpha, cand.Beta, cand.Gamma)
        raises == cand.Gamma = 0 \/ HasNaN(variable_name) \/ RawFitRaises(k, feats, cols)
    IN  IF ~res.ok \/ variable_name \notin cols \/ raises
        THEN [ok |-> FALSE, result |-> NoCandidate, features |-> feats, model_cols |-> cols]
        ELSE [ok |-> TRUE,
              result |-> [Variable |-> transform_name,
                          TStat |-> TStat(profile, cand.Alpha, cand.Beta, cand.Gamma),
                          Alpha |-> cand.Alpha, Beta |-> cand.Beta, Gamma |-> cand.Gamma,
                          X |-> <<"const">> \o feats \o <<transform_name>>,
                          SwitchPoint |-> SwitchPoint(curve_type, cand.Alpha, cand.Gamma)],
              features |-> feats, model_cols |-> cols]

RECURSIVE CurveLoop(_, _, _, _, _, _, _, _, _)
\* the loop over the grid: "if result: results.append(result)"
CurveLoop(res, k, feats, cols, variable_name, curve_type, grid, profile, acc) ==
    IF grid = <<>> THEN [results |-> acc, features |-> feats, model_cols |-> cols]
    ELSE LET r == TestCurveTransformModel(res, k, feats, cols, variable_name,
                                          curve_type, Head(grid), profile)
         IN  CurveLoop(res, k, r.features, r.model_cols, variable_name, curve_type,
                       Tail(grid), profile,
                       IF r.ok THEN Append(acc, r.result) ELSE acc)

RECURSIVE StableSort(_, _)
\* s sorted ascending by the integer keys key[i], equal keys in their order
StableSort(s, key) ==
    IF s = <<>> THEN <<>>
    ELSE LET i == CHOOSE j \in DOMAIN s :
                     /\ \A m \in DOMAIN s : key[j] <= key[m]
                     /\ \A m \in DOMAIN s : m < j => key[m] > key[j]
             drop(q) == SubSeq(q, 1, i - 1) \o SubSeq(q, i + 1, Len(q))
         IN  <<s[i]>> \o StableSort(drop(s), drop(key))

\* results_df.sort_values(['Alpha', 'Beta', 'Gamma'])
SortByAlphaBetaGamma(rs) ==
    StableSort(rs, [i \in DOMAIN rs |->
                     (rs[i].Alpha * 100 + rs[i].Beta) * 100 + rs[i].Gamma])

\* sort_values('T-stat', key=abs, ascending=False) and
\* results.sort(key=lambda x: abs(x['tStat']), reverse=True)
SortByAbsTStat(rs) == StableSort(rs, [i \in DOMAIN rs |-> -Abs(rs[i].TStat)])

\* what a search leaves in curve_search: the call (for the notebook
\* functions the model is the active one), its outcome ("ok": a list
\* of candidates was produced, "none": nothing to show, "error": the call
\* failed) and the candidate list in the order it is presented
SearchOutcome(op, name, variable_name, curve_type, gamma_options, profile, status, rs) ==
    [stage |-> "done", op |-> op, name |-> name, variable |-> variable_name,
     curve_type |-> curve_type, gamma_options |-> gamma_options,
     profile |-> profile, status |-> status, results |-> rs]

\* test_icp_internal and test_adbug_internal of curve_transformations.py
\* (sorted by Alpha, Beta, Gamma) and test_icp_internal of
\* improved_curve_testing.py (sorted by |T-stat|), told apart by op
NotebookSearch(op, curve_type, variable_name, gamma_options, profile) ==
    /\ curve_search.stage = "none"
    /\ models # {}
    /\ UNCHANGED <<models, active_model, kpi, feature_transformations,
                   transformed_data, window, results, fixed_coefficients,
                   last_fixed, decomp>>
    /\ raised' = "" /\ UNCHANGED aux
    /\ IF variable_name \notin model_cols
       THEN /\ UNCHANGED <<features, model_cols>>
            /\ curve_search' = SearchOutcome(op, active_model, variable_name, curve_type,
                                             gamma_options, profile, "none", <<>>)
       ELSE LET r == CurveLoop(results, kpi, features, model_cols, variable_name,
                               curve_type, Grid(curve_type, gamma_options),
                               profile, <<>>)
                sorted == IF op = "improved_test_icp_internal"
                          THEN SortByAbsTStat(r.results)
                          ELSE SortByAlphaBetaGamma(r.results)
            IN  /\ features' = r.features
                /\ model_cols' = r.model_cols
                /\ curve_search' =
                      IF r.results # <<>>
                      THEN SearchOutcome(op, active_model, variable_name, curve_type, gamma_options,
                                         profile, "ok", sorted)
                      ELSE SearchOutcome(op, active_model, variable_name, curve_type, gamma_options,
                                         profile, "none", <<>>)

\* curve_transformations.test_icp_internal(model, variable_name)
test_icp_internal(variable_name, gamma_options, profile) ==
    NotebookSearch("test_icp_internal", "ICP", variable_name, gamma_options, profile)

\* curve_transformations.test_adbug_internal(model, variable_name)
test_adbug_internal(variable_name, gamma_options, profile) ==
    NotebookSearch("test_adbug_internal", "ADBUG", variable_name, gamma_options, profile)

\* improved_curve_testing.test_icp_internal(model, variable_name)
improved_test_icp_internal(variable_name, gamma_options, profile) ==
    NotebookSearch("improved_test_icp_internal", "ICP", variable_name,
                   gamma_options, profile)

RECURSIVE HandlerLoop(_, _, _, _, _, _, _, _)
\* the loop of test_model_curves: formatting the first candidate that has a
\* result reads result['R Increase'], a key the result does not have (it is
\* 'R\u00b2 Increase'), and the KeyError ends the request
HandlerLoop(res, k, feats, cols, variable_name, curve_type, grid, profile) ==
    IF grid = <<>> THEN [raised |-> FALSE, features |-> feats, model_cols |-> cols]
    ELSE LET r == TestCurveTransformModel(res, k, feats, cols, variable_name,
                                          curve_type, Head(grid), profile)
         IN  IF r.ok
             THEN [raised |-> TRUE, features |-> r.features, model_cols |-> r.model_cols]
             ELSE HandlerLoop(res, k, r.features, r.model_cols, variable_name,
                              curve_type, Tail(grid), profile)

\* test_model_curves: POST /api/models/test-curves
test_model_curves(name, variable_name, curve_type, gamma_options, profile) ==
    /\ curve_search.stage = "none"
    /\ UNCHANGED <<models, active_model, kpi, feature_transformations,
                   transformed_data, window, results, fixed_coefficients,
                   last_fixed, decomp>>
    /\ raised' = "" /\ UNCHANGED aux
    /\ IF name \notin models \/ variable_name = "" \/ variable_name \notin model_cols
       THEN \* 400, or KeyError on model_data[variable_name]: 500
            /\ UNCHANGED <<features, model_cols>>
            /\ curve_search' = SearchOutcome("test_model_curves", name, variable_name,
                                             curve_type, gamma_options, profile,
                                             "error", <<>>)
       ELSE LET r == HandlerLoop(results, kpi, features, model_cols, variable_name,
                                 curve_type, Grid(curve_type, gamma_options), profile)
            IN  /\ features' = r.features
                /\ model_cols' = r.model_cols
                /\ curve_search' = SearchOutcome("test_model_curves", name, variable_name,
                                                 curve_type, gamma_options, profile,
                                                 IF r.raised THEN "error" ELSE "ok", <<>>)

\* alphas of a direct evaluation of one candidate, in tenths
DirectAlphas == {5, 10, 20, 30}
DirectGammas == {0, 1, 2, 3}

\* test_curve_transform_model(model, variable_name, curve_function, alpha,
\* beta, gamma, curve_type) called on the active model for one candidate
test_curve_transform_model(variable_name, curve_type, alpha, beta, gamma, profile) ==
    /\ curve_search.stage = "none"
    /\ models # {}
    /\ UNCHANGED <<models, active_model, kpi, feature_transformations,
                   transformed_data, window, results, fixed_coefficients,
                   last_fixed, decomp>>
    /\ raised' = "" /\ UNCHANGED aux
    /\ LET r == TestCurveTransformModel(results, kpi, features, model_cols, variable_name,
                                        curve_type,
                                        [Alpha |-> alpha, Beta |-> beta, Gamma |-> gamma],
                                        profile)
       IN  /\ features' = r.features
           /\ model_cols' = r.model_cols
           /\ curve_search' =
                 [SearchOutcome("test_curve_transform_model", active_model, variable_name,
                                curve_type, <<gamma>>, profile,
                                IF r.ok THEN "ok" ELSE "none",
                                IF r.ok THEN <<r.result>> ELSE <<>>)
                    EXCEPT !.stage = "evaluated"]

\* the models a search is run on: registered models with their last fit; the
\* fit of a model whose features cannot be fitted is the one it had before
CurveFeatureLists == {<<>>, <<"a">>, <<"a", "b">>, <<"n">>}
CurveVariables == {"a", "n", "z"}
CurveTypes == {"ICP", "ADBUG"}

CurveInit ==
    /\ models = {"m1"}
    /\ active_model = "m1"
    /\ kpi \in (InputKpis \cap DataCols) \cup {""}
    /\ features \in CurveFeatureLists
    /\ kpi = "" => features = <<>>
    /\ feature_transformations = EmptyDict
    /\ transformed_data = EmptyDict
    /\ model_cols = DataCols
    /\ window = 0
    /\ results = IF kpi = "" THEN NoResults
                 ELSE IF RawFitRaises(kpi, features, model_cols)
                 THEN InitializeModel(kpi, 0, NoResults)
                 ELSE OLSResult(<<"const">> \o features, RawSource(features, 0), 0)
    /\ fixed_coefficients = EmptyDict
    /\ last_fixed = ""
    /\ decomp = NoDecomp
    /\ curve_search = NoSearch
    /\ raised = ""
    /\ adstock_call = NoAdstock
    /\ pending = <<>>
    /\ registry = [n \in models |-> 1]
    /\ preview = NoPreview
    /\ wgtd_variables = EmptyDict

CurveNext ==
    \/ \E v \in CurveVariables, g \in GammaOptionLists, p \in TStatProfiles :
          test_icp_internal(v, g, p)
    \/ \E v \in CurveVariables, g \in GammaOptionLists, p \in TStatProfiles :
          test_adbug_internal(v, g, p)
    \/ \E v \in CurveVariables, g \in GammaOptionLists, p \in TStatProfiles :
          improved_test_icp_internal(v, g, p)
    \/ \E name \in ModelNames \cup {""}, v \in CurveVariables \cup {""},
          ct \in CurveTypes, g \in GammaOptionLists, p \in TStatProfiles :
          test_model_curves(name, v, ct, g, p)
    \/ \E v \in CurveVariables, ct \in CurveTypes, al \in DirectAlphas,
          be \in {3}, g \in DirectGammas, p \in TStatProfiles :
          test_curve_transform_model(v, ct, al, be, g, p)

CurveSpec == CurveInit /\ [][CurveNext]_vars

----------------------------------------------------------------------------
(* The carry-over transformation (model_operations.apply_adstock)            *)
(* A rate is a number of RateDen-ths.  A series of n values is returned     *)
(* multiplied by RateDen^(n-1), so that every value is a whole number.      *)

MaxSeriesLen == 3
RateDen == 2 * 2
SeriesValues == {0, 1, 3}
InputSeries == UNION {[1 .. n -> SeriesValues] : n \in 0 .. MaxSeriesLen}
InputRates == 0 .. (RateDen - 1)

\* the factor the returned series is multiplied by
SeriesScale(series) == IF series = <<>> THEN 1 ELSE RateDen ^ (Len(series) - 1)

RECURSIVE AdstockLoop_NoCarry(_, _, _, _)
AdstockLoop_NoCarry(series, rate, result, i) ==
    IF i > Len(series) THEN result
    ELSE AdstockLoop_NoCarry(series, rate,
            [result EXCEPT ![i] = SeriesScale(series) * series[i]
                                    + (rate * SeriesScale(series) * series[i - 1]) \div RateDen],
            i + 1)

RECURSIVE AdstockLoop(_, _, _, _)
\* for i in range(1, len(result)):
\*     result.iloc[i] = float(series.iloc[i]) + adstock_rate * result.iloc[i-1]
AdstockLoop(series, rate, result, i) ==
    IF i > Len(series) THEN result
    ELSE AdstockLoop(series, rate,
            [result EXCEPT ![i] = SeriesScale(series) * series[i]
                                    + (rate * result[i - 1]) \div RateDen],
            i + 1)

\* apply_adstock(series, adstock_rate): the series itself at rate 0, else a
\* copy filled by the loop from the second value on
ApplyAdstock(series, rate) ==
    LET copy == [i \in DOMAIN series |-> SeriesScale(series) * series[i]]
    IN  IF rate = 0 THEN copy
        ELSE AdstockLoop(series, rate, copy, 2)

AdstockInit ==
    /\ models = {}
    /\ active_model = ""
    /\ NoModel
    /\ last_fixed = ""
    /\ decomp = NoDecomp
    /\ curve_search = NoSearch
    /\ raised = ""
    /\ pending = <<>>
    /\ registry = [n \in models |-> 1]
    /\ preview = NoPreview
    /\ wgtd_variables = EmptyDict
    /\ adstock_call \in {[stage |-> "input", series |-> x, rate |-> r, result |-> <<>>] :
                        x \in InputSeries, r \in InputRates}

\* apply_adstock(series, adstock_rate)
apply_adstock ==
    /\ adstock_call.stage = "input"
    /\ adstock_call' = [adstock_call EXCEPT !.stage = "done",
                                  !.result = ApplyAdstock(adstock_call.series, adstock_call.rate)]
    /\ UNCHANGED <<models, active_model, lmvars, last_fixed, decomp, curve_search, raised,
                   registry, pending, wgtd_variables, preview>>

AdstockNext == apply_adstock

AdstockSpec == AdstockInit /\ [][AdstockNext]_vars

----------------------------------------------------------------------------
(* The notebook interface (interface.py): add_var, remove_var and swap_vars  *)
(* compute a preview model and show it with a Confirm and a Cancel button;  *)
(* the click on Confirm makes the preview model the current model.          *)

MaxPending == 2

RECURSIVE AddVariablesLoop(_, _, _, _, _)
\* the loop of add_variables_to_model over zip(variable_names, adstock_rates)
AddVariablesLoop(k, feats, cols, variable_names, adstock_rates) ==
    IF variable_names = <<>> THEN [features |-> feats, cols |-> cols]
    ELSE LET var     == Head(variable_names)
             adstock == Head(adstock_rates)
             vs      == Tail(variable_names)
             rs      == Tail(adstock_rates)
         IN  IF var \notin cols \/ var = k \/ var \in Range(feats)
             THEN AddVariablesLoop(k, feats, cols, vs, rs)
             ELSE IF adstock > 0
             THEN AddVariablesLoop(k, Append(feats, AdstockVar(var, adstock)),
                                   cols \cup {AdstockVar(var, adstock)}, vs, rs)
             ELSE AddVariablesLoop(k, Append(feats, var), cols, vs, rs)

\* add_variables_to_model(model, variable_names, adstock_rates): the preview
\* model, a deep copy of the model with the variables appended and fitted on
\* the raw columns; ok is FALSE where the function returns no preview model
AddVariablesToModel(k, feats, cols, w, res, variable_names, adstock_rates) ==
    IF ~res.ok \/ Len(adstock_rates) # Len(variable_names)
    THEN [ok |-> FALSE, features |-> feats, model_cols |-> cols, results |-> res]
    ELSE LET r == AddVariablesLoop(k, feats, cols, variable_names, adstock_rates)
         IN  IF r.features = <<>>
             THEN [ok |-> TRUE, features |-> r.features, model_cols |-> r.cols,
                   results |-> res]
             ELSE IF RawFitRaises(k, r.features, r.cols)
             THEN [ok |-> FALSE, features |-> feats, model_cols |-> cols, results |-> res]
             ELSE [ok |-> TRUE, features |-> r.features, model_cols |-> r.cols,
                   results |-> OLSResult(<<"const">> \o r.features,
                                         RawSource(r.features, w), w)]

\* a preview on screen: the preview model (the copy of the model with the
\* change applied), the features the change adds and removes, and the
\* features added and removed by the confirmations clicked since
Preview(op, feats1, cols1, res1) ==
    [op |-> op, features |-> feats1, model_cols |-> cols1, results |-> res1,
     kpi |-> kpi, feature_transformations |-> feature_transformations,
     transformed_data |-> transformed_data, window |-> window,
     fixed_coefficients |-> fixed_coefficients,
     added |-> Range(feats1) \ Range(features),
     removed |-> Range(features) \ Range(feats1),
     since_added |-> {}, since_removed |-> {}]

\* what a call of the interface leaves untouched
NotebookFrame ==
    /\ UNCHANGED <<models, active_model, lmvars, last_fixed, decomp, curve_search,
                   adstock_call, registry, wgtd_variables, preview>>
    /\ raised' = ""

\* interface.add_var(variables, adstock_rates) up to its return
add_var(variables, adstock_rates) ==
    /\ models # {}
    /\ Len(pending) < MaxPending
    /\ Len(features) + Len(variables) <= MaxFeatures
    /\ NotebookFrame
    /\ LET r == AddVariablesToModel(kpi, features, model_cols, window, results,
                                    variables, adstock_rates)
       IN  pending' = IF r.ok
                      THEN Append(pending, Preview("add_var", r.features, r.model_cols,
                                                   r.results))
                      ELSE pending

\* interface.remove_var(variables) up to its return
preview_remove_var(variables) ==
    /\ models # {}
    /\ Len(pending) < MaxPending
    /\ NotebookFrame
    /\ LET r == RemoveVariablesFromModel(kpi, features, model_cols, window, results,
                                         variables)
       IN  pending' = IF r.ok
                      THEN Append(pending, Preview("remove_var", r.features, model_cols,
                                                   r.results))
                      ELSE pending

\* interface.swap_vars(vars_to_remove, vars_to_add, adstock_rates) up to its
\* return: the removal, then the addition on the preview of the removal
swap_vars(vars_to_remove, vars_to_add, adstock_rates) ==
    /\ models # {}
    /\ Len(pending) < MaxPending
    /\ Len(features) + Len(vars_to_add) <= MaxFeatures
    /\ NotebookFrame
    /\ LET r1 == IF vars_to_remove = <<>>
                 THEN [ok |-> TRUE, features |-> features, results |-> results]
                 ELSE RemoveVariablesFromModel(kpi, features, model_cols, window,
                                               results, vars_to_remove)
           r2 == IF vars_to_add = <<>>
                 THEN [ok |-> TRUE, features |-> r1.features, model_cols |-> model_cols,
                       results |-> r1.results]
                 ELSE AddVariablesToModel(kpi, r1.features, model_cols, window,
                                          r1.results, vars_to_add, adstock_rates)
       IN  pending' = IF r1.ok /\ r2.ok
                      THEN Append(pending, Preview("swap_vars", r2.features, r2.model_cols,
                                                   r2.results))
                      ELSE pending

\* the previews left on screen after a click on a button of preview i, with
\* the change that was committed noted in each
Remaining(i, added, removed) ==
    [j \in 1 .. (Len(pending) - 1) |->
        LET p == pending[IF j < i THEN j ELSE j + 1]
        IN  [p EXCEPT !.since_added = (@ \ removed) \cup added,
                      !.since_removed = (@ \ added) \cup removed]]

\* on_confirm_clicked of preview i: _model = preview_model
on_confirm_clicked(i) ==
    /\ i \in DOMAIN pending
    /\ kpi' = pending[i].kpi
    /\ features' = pending[i].features
    /\ feature_transformations' = pending[i].feature_transformations
    /\ transformed_data' = pending[i].transformed_data
    /\ model_cols' = pending[i].model_cols
    /\ window' = pending[i].window
    /\ results' = pending[i].results
    /\ fixed_coefficients' = pending[i].fixed_coefficients
    /\ pending' = Remaining(i, pending[i].added, pending[i].removed)
    /\ raised' = ""
    /\ UNCHANGED <<models, active_model, last_fixed, decomp, curve_search, adstock_call,
                   registry, wgtd_variables, preview>>

\* on_cancel_clicked of preview i
on_cancel_clicked(i) ==
    /\ i \in DOMAIN pending
    /\ pending' = Remaining(i, {}, {})
    /\ NotebookFrame

\* the model of the notebook when the session starts: created on the dataset
\* with target y and some features
NotebookFeatureLists == {<<>>, <<"a">>, <<"b">>}
NotebookVars == {"a", "b", "z"}

NotebookInit ==
    /\ models = {"m1"}
    /\ active_model = "m1"
    /\ kpi = "y"
    /\ features \in NotebookFeatureLists
    /\ feature_transformations = EmptyDict
    /\ transformed_data = EmptyDict
    /\ model_cols = DataCols
    /\ window = 0
    /\ results = OLSResult(<<"const">> \o features, RawSource(features, 0), 0)
    /\ fixed_coefficients = EmptyDict
    /\ last_fixed = ""
    /\ decomp = NoDecomp
    /\ curve_search = NoSearch
    /\ raised = ""
    /\ adstock_call = NoAdstock
    /\ pending = <<>>
    /\ registry = [n \in models |-> 1]
    /\ preview = NoPreview
    /\ wgtd_variables = EmptyDict

NotebookNext ==
    \/ \E items \in Batches(AddInputs) : add_var(Variables(items), Rates(items))
    \/ \E vs \in Batches(NotebookVars) : preview_remove_var(vs)
    \/ \E r \in NotebookVars, a \in AddInputs : swap_vars(<<r>>, <<a[1]>>, <<a[2]>>)
    \/ \E i \in 1 .. MaxPending : on_confirm_clicked(i)
    \/ \E i \in 1 .. MaxPending : on_cancel_clicked(i)

NotebookSpec == NotebookInit /\ [][NotebookNext]_vars

----------------------------------------------------------------------------
(* The registry of models (data_store['models'] and data_store['active_model'] *)
(* of the application).  The LinearModel variables follow the create and     *)
(* delete requests as in Spec and are left alone by the other requests.      *)

RegistryNames == {"m1", "m2", "m3"}

\* what a request on the registry leaves untouched
RegistryFrame ==
    /\ UNCHANGED <<lmvars, decomp, curve_search, adstock_call, pending, wgtd_variables, preview>>
    /\ last_fixed' = "" /\ raised' = ""

\* clone_model: POST /api/models/clone
clone_model(model_name, new_model_name) ==
    /\ RegistryFrame
    /\ IF model_name \notin models \/ new_model_name = "" \/ new_model_name \in models
       THEN UNCHANGED <<models, registry, active_model>>
       ELSE /\ models' = models \cup {new_model_name}
            /\ registry' = DictSet(registry, new_model_name, NewObject(registry))
            /\ active_model' = new_model_name

\* rename_model: POST /api/models/rename
rename_model(old_model_name, new_model_name) ==
    /\ RegistryFrame
    /\ IF \/ old_model_name = "" \/ new_model_name = ""
          \/ new_model_name \in models
          \/ old_model_name \notin models
       THEN UNCHANGED <<models, registry, active_model>>
       ELSE /\ models' = (models \cup {new_model_name}) \ {old_model_name}
            /\ registry' = DictDel(DictSet(registry, new_model_name,
                                           registry[old_model_name]),
                                   old_model_name)
            /\ active_model' = IF active_model = old_model_name THEN new_model_name
                               ELSE active_model

\* import_model: POST /api/models/import of a file that holds a model named
\* model_name; readable is FALSE when import_model_from_excel gives None
import_model(model_name, readable) ==
    /\ RegistryFrame
    /\ IF ~readable
       THEN UNCHANGED <<models, registry, active_model>>
       ELSE /\ models' = models \cup {model_name}
            /\ registry' = DictSet(registry, model_name, NewObject(registry))
            /\ active_model' = model_name

RegistryNext ==
    \/ \E name \in RegistryNames, k \in InputKpis : create_model(name, k)
    \/ \E name \in RegistryNames, new \in RegistryNames \cup {""} : clone_model(name, new)
    \/ \E old \in RegistryNames \cup {""}, new \in RegistryNames \cup {""} :
          rename_model(old, new)
    \/ \E name \in RegistryNames, readable \in BOOLEAN : import_model(name, readable)
    \/ \E name \in RegistryNames : delete_model(name)

RegistrySpec == Init /\ [][RegistryNext]_vars

----------------------------------------------------------------------------
(* Weighted variables (weighted_variables.py and the update handler of the   *)
(* application).  The column of a weighted variable is the sum of its       *)
(* components weighted by the coefficients held in wgtd_variables; a fit on *)
(* the column records the coefficients the column was built from.           *)

ComponentDicts ==
    {[c \in {"a", "b"} |-> IF c = "a" THEN ca ELSE cb] :
        ca \in ComponentCoefs, cb \in ComponentCoefs}

\* the version of the column of variable f of model_data on window w
ColumnSource(wv, f, w) ==
    IF f \in DOMAIN wv THEN [t |-> "", w |-> w, components |-> wv[f]] ELSE Raw(w)

WeightedFeatureLists == {<<>>, <<"a">>, <<WgtdName>>, <<"a", WgtdName>>}

WeightedInit ==
    /\ models = {"m1"}
    /\ active_model = "m1"
    /\ kpi = "y"
    /\ wgtd_variables \in {EmptyDict} \cup {[v \in {WgtdName} |-> c] : c \in ComponentDicts}
    /\ features \in WeightedFeatureLists
    /\ Range(features) \cap {WgtdName} \subseteq DOMAIN wgtd_variables
    /\ feature_transformations = EmptyDict
    /\ transformed_data = EmptyDict
    /\ model_cols = DataCols \cup DOMAIN wgtd_variables
    /\ window = 0
    /\ results = OLSResult(<<"const">> \o features,
                           [f \in Range(features) |-> ColumnSource(wgtd_variables, f, 0)], 0)
    /\ fixed_coefficients = EmptyDict
    /\ last_fixed = ""
    /\ decomp = NoDecomp
    /\ curve_search = NoSearch
    /\ raised = ""
    /\ adstock_call = NoAdstock
    /\ pending = <<>>
    /\ registry = [n \in models |-> 1]
    /\ preview = NoPreview

\* what a call on a weighted variable leaves untouched
WeightedFrame ==
    /\ UNCHANGED <<models, active_model, kpi, features, feature_transformations,
                   transformed_data, window, results, fixed_coefficients, decomp,
                   curve_search, adstock_call, registry, pending, preview>>
    /\ last_fixed' = "" /\ raised' = ""

\* create_weighted_variable_with_coefficients(model, base_name, coefficients)
\* with base name "w": the column is written, the coefficients are stored
create_weighted_variable_with_coefficients(coefficients) ==
    /\ WeightedFrame
    /\ IF DOMAIN coefficients = {}
       THEN UNCHANGED <<model_cols, wgtd_variables>>
       ELSE /\ model_cols' = model_cols \cup {WgtdName}
            /\ wgtd_variables' = DictSet(wgtd_variables, WgtdName, coefficients)

\* update_weighted_variable: POST /api/models/update-weighted-variable; the
\* column is rebuilt from the new coefficients and the coefficients stored
update_weighted_variable(name, variable_name, coefficients) ==
    /\ WeightedFrame
    /\ IF \/ name \notin models
          \/ variable_name = ""
          \/ DOMAIN coefficients = {}
          \/ variable_name \notin DOMAIN wgtd_variables
       THEN UNCHANGED <<model_cols, wgtd_variables>>
       ELSE /\ model_cols' = model_cols \cup {variable_name}
            /\ wgtd_variables' = DictSet(wgtd_variables, variable_name, coefficients)

WeightedNext ==
    \/ \E c \in ComponentDicts \cup {EmptyDict} :
          create_weighted_variable_with_coefficients(c)
    \/ \E name \in ModelNames \cup {""}, v \in {WgtdName, "a", ""},
          c \in ComponentDicts \cup {EmptyDict} :
          update_weighted_variable(name, v, c)

WeightedSpec == WeightedInit /\ [][WeightedNext]_vars

----------------------------------------------------------------------------
(* Previews of an add or a remove of variables: the handlers of the          *)
(* application and the functions of model_operations.py.  Each works on a   *)
(* deep copy of the model; an outcome names the features, columns and fit   *)
(* of the preview and, as model, those of the model itself after the call.  *)

PreviewOutcome(ok, pfeats, pcols, pres, mfeats, mcols, mres) ==
    [ok |-> ok, features |-> pfeats, model_cols |-> pcols, results |-> pres,
     model |-> [features |-> mfeats, model_cols |-> mcols, results |-> mres]]

RECURSIVE PreviewAddLoop(_, _, _, _)
\* the loop of preview_add_variables: a variable that is no column ends the
\* request with 400
PreviewAddLoop(feats, cols, variables, rates) ==
    IF variables = <<>> THEN [features |-> feats, cols |-> cols, found |-> TRUE]
    ELSE LET var == Head(variables)
             adstock_rate == Head(rates)
         IN  IF var \notin cols
             THEN [features |-> feats, cols |-> cols, found |-> FALSE]
             ELSE IF adstock_rate > 0
             THEN PreviewAddLoop(Append(feats, AdstockVar(var, adstock_rate)),
                                 cols \cup {AdstockVar(var, adstock_rate)},
                                 Tail(variables), Tail(rates))
             ELSE PreviewAddLoop(Append(feats, var), cols, Tail(variables), Tail(rates))

\* the preview changes the registered model instead of a copy
PreviewAddVariables_InPlace(k, feats, cols, w, res, variables, rates) ==
    LET r == PreviewAddLoop(feats, cols, variables, rates)
        fails == ~r.found \/ k = "" \/ ~NoDuplicates(r.features)
    IN  PreviewOutcome(~fails, r.features, r.cols,
                       IF fails THEN res
                       ELSE OLSResult(<<"const">> \o r.features,
                                      RawSource(r.features, w), w),
                       r.features, r.cols, res)

\* the body of preview_add_variables on a registered model: missing values
\* are filled before the fit, so the fit fails only without a target
\* column; reading the coefficient of a name that occurs twice fails
PreviewAddVariables(k, feats, cols, w, res, variables, rates) ==
    LET r == PreviewAddLoop(feats, cols, variables, rates)
        fails == ~r.found \/ k = "" \/ ~NoDuplicates(r.features)
    IN  PreviewOutcome(~fails, r.features, r.cols,
                       IF fails THEN res
                       ELSE OLSResult(<<"const">> \o r.features,
                                      RawSource(r.features, w), w),
                       feats, cols, res)

\* the body of preview_remove_variables on a registered model
PreviewRemoveVariables(k, feats, cols, w, res, variables) ==
    LET feats1 == ListRemoveAll(feats, variables)
        fails  == RawFitRaises(k, feats1, cols)
    IN  PreviewOutcome(~fails, feats1, cols,
                       IF fails THEN res
                       ELSE OLSResult(<<"const">> \o feats1, RawSource(feats1, w), w),
                       feats, cols, res)

\* a preview call: the outcome is recorded and the model becomes what the
\* outcome says it is after the call
PreviewCall(op, name, variables, r) ==
    /\ preview.stage = "none"
    /\ preview' = [stage |-> "done", op |-> op, name |-> name, variables |-> variables,
                   ok |-> r.ok, features |-> r.features, model_cols |-> r.model_cols,
                   results |-> r.results]
    /\ features' = r.model.features
    /\ model_cols' = r.model.model_cols
    /\ results' = r.model.results
    /\ UNCHANGED <<models, active_model, kpi, feature_transformations, transformed_data,
                   window, fixed_coefficients, decomp, curve_search, adstock_call,
                   registry, pending, wgtd_variables>>
    /\ last_fixed' = "" /\ raised' = ""

\* preview_add_variables: POST /api/models/preview-add-var
preview_add_variables(name, variables, rates) ==
    PreviewCall("preview_add_variables", name, variables,
                IF name \notin models
                THEN PreviewOutcome(FALSE, features, model_cols, results,
                                    features, model_cols, results)
                ELSE PreviewAddVariables(kpi, features, model_cols, window, results,
                                         variables, rates))

\* preview_remove_variables: POST /api/models/preview-remove-var
preview_remove_variables(name, variables) ==
    PreviewCall("preview_remove_variables", name, variables,
                IF name \notin models
                THEN PreviewOutcome(FALSE, features, model_cols, results,
                                    features, model_cols, results)
                ELSE PreviewRemoveVariables(kpi, features, model_cols, window, results,
                                            variables))

\* add_variables_to_model(model, variable_names, adstock_rates)
add_variables_to_model(variable_names, adstock_rates) ==
    LET r == AddVariablesToModel(kpi, features, model_cols, window, results,
                                 variable_names, adstock_rates)
    IN  PreviewCall("add_variables_to_model", active_model, variable_names,
                    PreviewOutcome(r.ok, r.features, r.model_cols, r.results,
                                   features, model_cols, results))

\* remove_variables_from_model(model, variable_names)
remove_variables_from_model(variable_names) ==
    LET r == RemoveVariablesFromModel(kpi, features, model_cols, window, results,
                                      variable_names)
    IN  PreviewCall("remove_variables_from_model", active_model, variable_names,
                    PreviewOutcome(r.ok, r.features, model_cols, r.results,
                                   features, model_cols, results))

\* the registered models a preview is asked for: as for a curve search
PreviewInit ==
    /\ models = {"m1"}
    /\ active_model = "m1"
    /\ kpi \in (InputKpis \cap DataCols) \cup {""}
    /\ features \in CurveFeatureLists
    /\ kpi = "" => features = <<>>
    /\ feature_transformations = EmptyDict
    /\ transformed_data = EmptyDict
    /\ model_cols = DataCols
    /\ window \in Windows
    /\ results = IF kpi = "" THEN NoResults
                 ELSE IF RawFitRaises(kpi, features, model_cols)
                 THEN InitializeModel(kpi, window, NoResults)
                 ELSE OLSResult(<<"const">> \o features, RawSource(features, window), window)
    /\ fixed_coefficients = EmptyDict
    /\ last_fixed = ""
    /\ decomp = NoDecomp
    /\ curve_search = NoSearch
    /\ raised = ""
    /\ adstock_call = NoAdstock
    /\ pending = <<>>
    /\ registry = [n \in models |-> 1]
    /\ wgtd_variables = EmptyDict
    /\ preview = NoPreview

PreviewNext ==
    \/ \E name \in ModelNames \cup {""}, items \in Batches(AddInputs) :
          preview_add_variables(name, Variables(items), Rates(items))
    \/ \E name \in ModelNames \cup {""}, vs \in Batches(InputVars) :
          preview_remove_variables(name, vs)
    \/ \E items \in Batches(AddInputs) :
          add_variables_to_model(Variables(items), Rates(items))
    \/ \E vs \in Batches(InputVars) : remove_variables_from_model(vs)

PreviewSpec == PreviewInit /\ [][PreviewNext]_vars

----------------------------------------------------------------------------
(* Properties *)

\* sum over the group columns of a decomposition table
GroupTotal(table) == SumOver(table.Groups, DOMAIN table.Groups)

\* sum over all columns of a dictionary of contribution series
ContributionTotal(d) == SumOver(d, DOMAIN d)

(* C1: in the table returned by calculate_decomposition, for any fitted     *)
(* model and any group map, the sum over all group columns equals the       *)
(* Predicted column at every timestamp.                                     *)
C1_Conservation ==
    decomp.stage = "decomposed" =>
        \A t \in Rows : GroupTotal(decomp.table)[t] = decomp.table.Predicted[t]

(* C2: set_fixed_coefficient(v, c) directly followed by                     *)
(* unset_fixed_coefficient(v), with no other coefficient fixed, leaves the   *)
(* model with the ordinary OLS fit of the target on its features over the    *)
(* active window.                                                           *)
C2_FixUnfixRoundTrip ==
    [][(/\ last_fixed # ""
        /\ kpi # ""
        /\ unset_fixed_coefficient(last_fixed)
        /\ fixed_coefficients' = EmptyDict)
       => results' = OLSResult(<<"const">> \o features',
                               [f \in Range(features') |->
                                   IF f \in DOMAIN feature_transformations'
                                   THEN Transformed(feature_transformations'[f], window')
                                   ELSE Raw(window')],
                               window')]_vars

(* C3: whenever a model with a target is visible, its results are the fit   *)
(* of exactly its current feature list, transformations, fixed coefficients  *)
(* and date window: no state shows a changed configuration with an old fit.  *)
C3_FitMatchesConfiguration ==
    (models # {} /\ kpi # "") =>
        results =
            [ok    |-> TRUE,
             X     |-> <<"const">> \o features,
             fixed |-> fixed_coefficients,
             estX  |-> ({"const"} \cup Range(features)) \ DOMAIN fixed_coefficients,
             adj   |-> fixed_coefficients,
             win   |-> window,
             src   |-> [f \in Range(features) |->
                           IF f \in DOMAIN feature_transformations
                           THEN Transformed(feature_transformations[f], window)
                           ELSE Raw(window)]]

(* C4: when the refit of an add fails (every requested variable is a column *)
(* of the dataset and the model has a target, but OLS raises), the feature   *)
(* list, the transformations and the results are what they were before.      *)
C4_FailedAddRollsBack ==
    [][(\/ \E f \in InputVars \cap DataCols, t \in TransInputs :
              /\ add_feature(f, t)
              /\ kpi # "" /\ f # kpi /\ f \notin Range(features)
              /\ HasNaN(f)
        \/ \E name \in ModelNames, items \in Batches(AddInputs) :
              /\ add_variable(name, Variables(items), Rates(items))
              /\ name \in models /\ kpi # ""
              /\ Range(Variables(items)) \subseteq DataCols
              /\ RawFitRaises(kpi, features', model_cols'))
       => /\ features' = features
          /\ feature_transformations' = feature_transformations
          /\ results' = results]_vars

(* C5: a call whose input names a target or a variable that is no column of *)
(* the dataset changes neither the model (features, transformations, fixed   *)
(* coefficients, results) nor the set of registered models.                  *)
C5_InputErrorLeavesModelUntouched ==
    [][(\/ \E name \in ModelNames, k \in InputKpis \ DataCols : create_model(name, k)
        \/ \E f \in InputVars \ DataCols, t \in TransInputs : add_feature(f, t)
        \/ \E name \in ModelNames, items \in Batches(AddInputs) :
              /\ add_variable(name, Variables(items), Rates(items))
              /\ ~(Range(Variables(items)) \subseteq DataCols))
       => UNCHANGED <<models, features, feature_transformations,
                      fixed_coefficients, results>>]_vars

(* C6: every key of fixed_coefficients is a current feature or the          *)
(* intercept.                                                               *)
C6_FixedKeysAreFeatures ==
    DOMAIN fixed_coefficients \subseteq Range(features) \cup {"const"}

(* C7: the keys of the coefficients of the current fit are exactly the       *)
(* intercept and the features of the feature list.                           *)
C7_CoefficientKeys ==
    results.ok => ParamKeys(results) = {"const"} \cup Range(features)

(* C8: the feature list holds no name twice and never holds the target.      *)
C8_FeaturesUniqueWithoutTarget ==
    /\ NoDuplicates(features)
    /\ kpi # "" => kpi \notin Range(features)

(* C9: when a weighted variable of the fitted model is expanded, the         *)
(* contributions given to its components sum, at every timestep, to the      *)
(* contribution the weighted variable had before the expansion; so the sum   *)
(* of all contributions is the same before and after the expansion.          *)
C9_WeightedConservation ==
    /\ (decomp.stage = "decomposed" /\ WgtdName \in DOMAIN decomp.wgtd
            /\ WgtdName \in DOMAIN decomp.table.var_contributions)
        => \A t \in Rows : ContributionTotal(decomp.table.expanded)[t]
                           = ContributionTotal(decomp.table.var_contributions)[t]
    /\ (decomp.stage = "expanded" /\ WgtdName \in DOMAIN decomp.wgtd)
        => \A t \in Rows : ContributionTotal(decomp.df)[t]
                           = ContributionTotal(decomp.table.var_contributions)[t]

(* C10: when a variable has a Min or Max adjustment and the group map given  *)
(* by the caller assigns no variable to "Base", the table has a "Base"       *)
(* column that holds the sum of the recorded adjustments at every timestamp. *)
C10_ImplicitBaseGroup ==
    (/\ decomp.stage = "decomposed"
     /\ DOMAIN decomp.table.adjustment_values # {}
     /\ \A v \in DOMAIN decomp.groups_in : decomp.groups_in[v].Group # "Base")
    => /\ "Base" \in DOMAIN decomp.table.Groups
       /\ \A t \in Rows :
             decomp.table.Groups["Base"][t]
               = SumValues(decomp.table.adjustment_values,
                           DOMAIN decomp.table.adjustment_values)

(* C11: calculate_decomposition computes a contribution for every fitted      *)
(* variable, the intercept included, and it is the coefficient times the     *)
(* value of the variable the fit was computed on (the transformed series     *)
(* of a feature that has a transformation) at every timestamp.               *)
C11_ContributionIsCoefTimesFitValue ==
    decomp.stage = "decomposed" =>
        \A v \in {"const"} \cup Range(features) :
            /\ v \in DOMAIN decomp.table.var_contributions
            /\ \A t \in Rows :
                  decomp.table.var_contributions[v][t]
                    = decomp.coefficients[v]
                      * FitValues(ModelData(decomp.wgtd), feature_transformations, v)[t]

(* C12: after a call that fixes a coefficient of a model with a target, the   *)
(* reported coefficient of every fixed name is its supplied value, and the    *)
(* coefficients of the other features (and of the intercept when it is not    *)
(* fixed) are those estimated by the regression of the adjusted target on     *)
(* the features that are not fixed.                                           *)
C12_ConstrainedRefitCoefficients ==
    [][(\E v \in FixNames, c \in FixValues :
            /\ set_fixed_coefficient(v, c)
            /\ kpi # ""
            /\ (v \in Range(features) \/ v = "const"))
       => /\ results'.ok
          /\ results'.fixed = fixed_coefficients'
          /\ results'.estX =
                ({"const"} \cup Range(features')) \ DOMAIN fixed_coefficients'
          /\ results'.adj =
                DictRestrict(fixed_coefficients', {"const"} \cup Range(features'))]_vars

(* C13: after a change of the date window of a model with a target, whatever  *)
(* its feature list, the transformed series of every feature that has a       *)
(* transformation is the one computed on the new window, and the results are  *)
(* a fit on the new window of the series of that window.                      *)
C13_DateWindowRecomputes ==
    [][(/\ models # {} /\ kpi # ""
        /\ \/ \E w \in Windows : set_date_range(w)
           \/ \E name \in ModelNames, w \in Windows \ {0} : filter_model(name, w))
       => /\ \A f \in Range(features') \cap DOMAIN feature_transformations' :
                /\ f \in DOMAIN transformed_data'
                /\ transformed_data'[f] = Transformed(feature_transformations'[f], window')
          /\ results'.ok
          /\ results'.win = window'
          /\ Range(results'.X) = {"const"} \cup Range(features')
          /\ \A f \in DOMAIN results'.src : results'.src[f].w = window']_vars

(* C14: whenever a remove operation empties the feature list of a model with  *)
(* a target, the resulting fit is exactly the intercept-only fit that         *)
(* initialize_model produces on the same target and active window.            *)
C14_RemoveLastIsInitialize ==
    [][(/\ features # <<>> /\ features' = <<>>
        /\ models' # {} /\ kpi' # "")
       => results' = [ok |-> TRUE, X |-> <<"const">>, fixed |-> EmptyDict,
                      estX |-> {"const"}, adj |-> EmptyDict, win |-> window',
                      src |-> EmptyDict]]_vars

\* a model whose only feature, added with a transformation, has been removed
\* by a handler and that shows the intercept-only fit of window 1
C14_Witness ==
    /\ models # {} /\ kpi # "" /\ features = <<>>
    /\ DOMAIN feature_transformations # {}
    /\ window = 1
    /\ results = OLSResult(<<"const">>, EmptyDict, 1)

\* the candidates of the grid of a finished search whose evaluation succeeds
\* on the model as it is
GoodCandidates ==
    LET grid == Grid(curve_search.curve_type, curve_search.gamma_options)
    IN  {grid[i] : i \in {j \in DOMAIN grid : grid[j].Gamma # 0}}

\* the model can be fitted with a curve of the variable of the search
SearchFits ==
    /\ curve_search.name \in models
    /\ results.ok
    /\ curve_search.variable \in model_cols
    /\ ~HasNaN(curve_search.variable)
    /\ ~RawFitRaises(kpi, features, model_cols)

(* C15: in a curve search in which some candidate fails (gamma 0) on a model  *)
(* the other candidates can be fitted on, the search does not fail and its    *)
(* output holds every other candidate of the grid, and only those.            *)
C15_FailedCandidateIsDropped ==
    (/\ curve_search.stage = "done"
     /\ SearchFits
     /\ \E i \in DOMAIN curve_search.gamma_options : curve_search.gamma_options[i] = 0)
    => /\ curve_search.status # "error"
       /\ {[Alpha |-> r.Alpha, Beta |-> r.Beta, Gamma |-> r.Gamma] :
              r \in Range(curve_search.results)} = GoodCandidates

(* C16: a curve search leaves the model as it was (feature list, columns of   *)
(* model_data, transformations, fixed coefficients, results), and every       *)
(* candidate is fitted on the features of the base model and its own curve    *)
(* only.                                                                      *)
C16_SearchLeavesModelUnchanged ==
    [][curve_search' # curve_search
       => /\ UNCHANGED <<models, active_model, lmvars>>
          /\ \A r \in Range(curve_search'.results) :
                r.X = <<"const">> \o features \o <<r.Variable>>]_vars

\* a finished search that evaluated a grid with a failing candidate and
\* presents several candidates
C16_Witness ==
    /\ curve_search.stage = "done"
    /\ curve_search.status = "ok"
    /\ Len(curve_search.results) > 2
    /\ features # <<>>
    /\ \E i \in DOMAIN curve_search.gamma_options : curve_search.gamma_options[i] = 0

(* C17: the candidate list a curve search presents is ordered by |t-stat|     *)
(* descending: of two consecutive candidates the earlier has the greater or   *)
(* equal absolute t-statistic.                                                *)
C17_OrderedByAbsTStat ==
    (curve_search.stage = "done" /\ curve_search.status = "ok")
    => \A i \in 1 .. (Len(curve_search.results) - 1) :
          Abs(curve_search.results[i].TStat) >= Abs(curve_search.results[i + 1].TStat)

(* C18: no operation raises an exception to its caller: every call returns.   *)
C18_NoExceptionToCaller ==
    raised = ""

(* C19: after a call that fixes a coefficient and leaves every feature and    *)
(* the intercept of a model with a target fixed, the reported coefficients    *)
(* are the supplied values and nothing is estimated: the fit is that of the   *)
(* fully specified model.                                                     *)
C19_AllFixedReportsSupplied ==
    [][(/\ \E v \in FixNames, c \in FixValues : set_fixed_coefficient(v, c)
        /\ kpi # ""
        /\ raised' = ""
        /\ ({"const"} \cup Range(features')) \subseteq DOMAIN fixed_coefficients')
       => /\ results'.ok
          /\ results'.estX = {}
          /\ \A n \in {"const"} \cup Range(features') :
                /\ n \in DOMAIN results'.fixed
                /\ results'.fixed[n] = fixed_coefficients'[n]]_vars

(* C20: the Total column of the decomposition of one group equals, at every  *)
(* row, the series that group has in the group-level decomposition of the    *)
(* same model and group map.                                                 *)
C20_GroupTotalIsGroupSeries ==
    (decomp.stage = "group") =>
        LET full == CalculateDecomposition(decomp.coefficients, ModelData(decomp.wgtd),
                                           decomp.wgtd, decomp.groups_in)
        IN  decomp.group_name \in DOMAIN full.Groups =>
                decomp.Total = full.Groups[decomp.group_name]

(* C21: every candidate a curve search records carries, for an ICP curve     *)
(* with alpha above 1, the switch point gamma * ((alpha-1)/(alpha+1))^(1/alpha) *)
(* of its own alpha and gamma (here in hundredths, rounded down per unit of   *)
(* gamma), and carries no switch point for alpha at most 1 or an ADBUG curve. *)
C21_SwitchPointOfOwnParameters ==
    curve_search.stage \in {"done", "evaluated"} =>
        \A r \in Range(curve_search.results) :
            IF curve_search.curve_type = "ICP" /\ r.Alpha > 10
            THEN \E k \in 0 .. 100 :
                    /\ r.SwitchPoint = <<r.Gamma * k>>
                    /\ (k ^ (r.Alpha \div 10)) * ((r.Alpha \div 10) + 1)
                          <= ((r.Alpha \div 10) - 1) * (100 ^ (r.Alpha \div 10))
                    /\ ((k + 1) ^ (r.Alpha \div 10)) * ((r.Alpha \div 10) + 1)
                          > ((r.Alpha \div 10) - 1) * (100 ^ (r.Alpha \div 10))
            ELSE r.SwitchPoint = <<>>

\* a search that recorded ICP candidates of two alphas and two gammas
C21_Witness ==
    /\ curve_search.stage = "done"
    /\ curve_search.curve_type = "ICP"
    /\ \E r1, r2 \in Range(curve_search.results) :
          /\ r1.Alpha # r2.Alpha
          /\ r1.Gamma # r2.Gamma
          /\ r1.SwitchPoint # <<>>
          /\ r1.SwitchPoint # r2.SwitchPoint

(* C22: for every series x and every rate in [0,1) the carry-over transform  *)
(* returns y of the same length with y[0] = x[0] and y[i] = x[i] + rate *     *)
(* y[i-1] for i > 0; at rate 0 the output equals the input elementwise.       *)
C22_AdstockRecurrence ==
    (adstock_call.stage = "done") =>
        LET x == adstock_call.series
            y == adstock_call.result
            S == SeriesScale(x)
        IN  /\ Len(y) = Len(x)
            /\ x # <<>> => y[1] = S * x[1]
            /\ \A i \in 2 .. Len(x) :
                  RateDen * y[i] = RateDen * S * x[i] + adstock_call.rate * y[i - 1]
            /\ adstock_call.rate = 0 => \A i \in DOMAIN x : y[i] = S * x[i]

\* a series of three values carried over at a positive rate
C22_Witness ==
    /\ adstock_call.stage = "done"
    /\ adstock_call.rate > 0
    /\ Len(adstock_call.series) >= 3
    /\ adstock_call.series[1] > 0
    /\ adstock_call.result[3] > SeriesScale(adstock_call.series) * adstock_call.series[3]

(* C23: while a name stays in fixed_coefficients, adding a feature, removing  *)
(* another feature or changing the date window leaves the reported            *)
(* coefficient of that name equal to its fixed value.                         *)
C23_FixedSurvivesMutation ==
    [][(\/ \E f \in InputVars, t \in TransInputs : add_feature(f, t)
        \/ \E f \in InputVars : remove_feature(f)
        \/ \E w \in Windows : set_date_range(w))
       => \A n \in (DOMAIN fixed_coefficients) \cap (DOMAIN fixed_coefficients') :
             (/\ n \in DOMAIN results.fixed
              /\ results.fixed[n] = fixed_coefficients[n]
              /\ n = "const" \/ n \in Range(features'))
             => /\ n \in DOMAIN results'.fixed
                /\ results'.fixed[n] = fixed_coefficients'[n]]_vars

(* C24: a change of the date window of a model whose features are all        *)
(* columns of its dataset leaves every feature a column of the dataset of    *)
(* the new window.                                                           *)
C24_FeaturesStayColumns ==
    [][(/\ \/ \E w \in Windows : set_date_range(w)
           \/ \E name \in ModelNames, w \in Windows : filter_model(name, w)
        /\ Range(features) \subseteq model_cols)
       => Range(features') \subseteq model_cols']_vars

(* C25: a click on Confirm leaves a current model that holds the confirmed    *)
(* change and every change confirmed since the preview was computed: the      *)
(* features those changes added are features, those they removed are not.     *)
C25_ConfirmKeepsCommittedChanges ==
    [][\A i \in 1 .. MaxPending :
          on_confirm_clicked(i)
          => /\ pending[i].added \subseteq Range(features')
             /\ pending[i].removed \cap Range(features') = {}
             /\ (pending[i].since_added \ pending[i].removed) \subseteq Range(features')
             /\ (pending[i].since_removed \ pending[i].added) \cap Range(features') = {}]_vars

(* C26: after any sequence of create, import, clone, rename and delete        *)
(* requests, active_model is unset or the name of a model in the registry.    *)
C26_ActiveModelIsRegistered ==
    active_model = "" \/ active_model \in DOMAIN registry

\* the active model was deleted while another model stays registered
C26_Witness ==
    /\ active_model = ""
    /\ DOMAIN registry # {}

(* C27: a create, clone, rename or import request whose requested name is     *)
(* taken leaves the registry as it is: the name keeps the object it had.      *)
C27_TakenNameIsNotReplaced ==
    [][\A n \in RegistryNames :
          (/\ n \in DOMAIN registry
           /\ \/ \E k \in InputKpis : create_model(n, k)
              \/ \E src \in RegistryNames : clone_model(src, n)
              \/ \E old \in RegistryNames \cup {""} : rename_model(old, n)
              \/ \E readable \in BOOLEAN : import_model(n, readable))
          => registry' = registry]_vars

(* C28: when an update of a weighted variable changes the column of a        *)
(* feature of the model, the fit held after the update is a fit on the new   *)
(* values of the column.                                                     *)
C28_UpdateRefits ==
    [][\A v \in {WgtdName} :
          (/\ \E name \in ModelNames, c \in ComponentDicts :
                 update_weighted_variable(name, v, c)
           /\ v \in Range(features)
           /\ v \in DOMAIN wgtd_variables
           /\ wgtd_variables'[v] # wgtd_variables[v])
          => /\ results'.ok
             /\ results'.src[v] = ColumnSource(wgtd_variables', v, window')]_vars

(* C29: a decomposition is read-only: it leaves the group map passed by the  *)
(* caller as it was, and a second decomposition with the same arguments      *)
(* returns the same table.                                                   *)
C29_DecompositionIsReadOnly ==
    (decomp.stage \in {"decomposed", "group"}) =>
        /\ decomp.groups = decomp.groups_in
        /\ decomp.stage = "decomposed" =>
              CalculateDecomposition(decomp.coefficients, ModelData(decomp.wgtd),
                                     decomp.wgtd, decomp.groups).Groups
                  = decomp.table.Groups

(* C30: a preview of an add or a remove of variables, successful or not,     *)
(* leaves the registered model as it was: its feature list, the columns of   *)
(* its dataset and its fit.                                                  *)
C30_PreviewLeavesModelUnchanged ==
    [][preview' # preview
       => UNCHANGED <<models, registry, active_model, lmvars>>]_vars

\* a successful preview of an add with carry-over: the preview has a feature
\* and a column the model has not
C30_Witness ==
    /\ preview.stage = "done"
    /\ preview.op = "preview_add_variables"
    /\ preview.ok
    /\ Len(preview.features) > Len(features)
    /\ preview.model_cols # model_cols

====
